---- MODULE Spec2Model ----
(***************************************************************************)
(* A model of the id3-rtl-fix tool: the RTL segment reverser, the          *)
(* statistics collector, the batch driver and backup/restore.              *)
(*                                                                         *)
(* A Python str is a sequence of code points (naturals); a Python dict is  *)
(* a function whose DOMAIN is the set of keys present.                     *)
(***************************************************************************)
EXTENDS Naturals, Integers, Sequences, FiniteSets, TLC

VARIABLES
    text,       \* the argument of the last reverse_rtl_parts call
    result,     \* what that call returned
    with_stats, \* whether that call was handed the collector
    stats,      \* the ScriptStats collector
    examined,   \* total length of the texts handed over with the collector
    fed,        \* total length of the texts of all calls so far
    opts,       \* the command line: remove_str, reverse_rtl, reverse_tags,
                \* dry_run, backup_dir
    audio_files,\* the discovered files, in the order of the loop
    disk,       \* path -> file, for the paths that exist
    store,      \* the backup directory
    clock,      \* the last time datetime.now() returned, in seconds
    idx,        \* how many files the loop of process_folder has handled
    pc,         \* "loop" | "done" | "restored" | "text"
    effects,    \* per handled file, what the iteration did
    restore_arg,\* the arguments of the last restore_from_backup call
    restore_ret,\* what that call returned: "True" | "False" | "raised"
    report      \* what stats.to_report() returned, once it was called

textvars == <<text, result, with_stats, examined, fed>>
batchvars == <<opts, audio_files, clock, idx, effects>>
restorevars == <<restore_arg, restore_ret>>
vars == <<text, result, with_stats, stats, examined, fed, opts, audio_files,
          disk, store, clock, idx, pc, effects, restore_arg, restore_ret,
          report>>

(***************************************************************************)
(* Bounds                                                                  *)
(***************************************************************************)
MaxLen == 3
MaxTotal == 4
MaxFiles == 2
MaxStamps == 2

(***************************************************************************)
(* Python str helpers                                                      *)
(***************************************************************************)
\* a < b for two Python strings: lexicographic on code points, a proper
\* prefix being smaller.
RECURSIVE StrLess(_, _)
StrLess(a, b) ==
    IF b = <<>> THEN FALSE
    ELSE IF a = <<>> THEN TRUE
    ELSE IF Head(a) # Head(b) THEN Head(a) < Head(b)
    ELSE StrLess(Tail(a), Tail(b))

StrLE(a, b) == a = b \/ StrLess(a, b)

\* s[::-1]
Reversed(s) == [i \in 1..Len(s) |-> s[Len(s) + 1 - i]]

\* s[lo:hi] with Python's 0-based, end-exclusive indices
Slice(s, lo, hi) == SubSeq(s, lo + 1, hi)

(***************************************************************************)
(* script_definitions.py                                                   *)
(***************************************************************************)
\* The table as Python reads its literals: a \u escape takes exactly four
\* hex digits, so the literal written \u10840 is the two-character string
\* U+1084 '0', and the one written \u1085F is U+1085 'F'.
RTL_SCRIPTS ==
    << [name |-> "Hebrew",
        ranges |-> << << <<\h0590>>, <<\h05FF>> >>, << <<\hFB1D>>, <<\hFB4F>> >> >>],
       [name |-> "Arabic",
        ranges |-> << << <<\h0600>>, <<\h06FF>> >>, << <<\h0750>>, <<\h077F>> >>,
                      << <<\h08A0>>, <<\h08FF>> >>, << <<\hFB50>>, <<\hFDFF>> >>,
                      << <<\hFE70>>, <<\hFEFF>> >> >>],
       [name |-> "Syriac",
        ranges |-> << << <<\h0700>>, <<\h074F>> >>, << <<\h0860>>, <<\h086F>> >> >>],
       [name |-> "Thaana", ranges |-> << << <<\h0780>>, <<\h07BF>> >> >>],
       [name |-> "NKo", ranges |-> << << <<\h07C0>>, <<\h07FF>> >> >>],
       [name |-> "Mandaic", ranges |-> << << <<\h0840>>, <<\h085F>> >> >>],
       [name |-> "Samaritan", ranges |-> << << <<\h0800>>, <<\h083F>> >> >>],
       [name |-> "Imperial Aramaic",
        ranges |-> << << <<\h1084, \h30>>, <<\h1085, \h46>> >> >>],
       [name |-> "Phoenician",
        ranges |-> << << <<\h1090, \h30>>, <<\h1091, \h46>> >> >>],
       [name |-> "Nabataean",
        ranges |-> << << <<\h1088, \h30>>, <<\h108A, \h46>> >> >>],
       [name |-> "Lydian",
        ranges |-> << << <<\h1092, \h30>>, <<\h1093, \h46>> >> >>],
       [name |-> "Meroitic",
        ranges |-> << << <<\h1098, \h30>>, <<\h1099, \h46>> >>,
                      << <<\h109A, \h30>>, <<\h109F, \h46>> >> >>] >>

(***************************************************************************)
(* stats-collector.py                                                      *)
(***************************************************************************)
\* defaultdict(int): d[k] += 1
DictInc(d, k) ==
    [x \in DOMAIN d \cup {k} |->
        IF x = k THEN (IF k \in DOMAIN d THEN d[k] ELSE 0) + 1 ELSE d[x]]

\* any(start <= char <= end for start, end in ranges), char a 1-character str
InRanges(char, ranges) ==
    \E r \in 1..Len(ranges) :
        StrLE(ranges[r][1], <<char>>) /\ StrLE(<<char>>, ranges[r][2])

\* The inner loop of count_characters: the bucket one character is credited to.
ScriptOf(char) ==
    LET hits == {k \in 1..Len(RTL_SCRIPTS) : InRanges(char, RTL_SCRIPTS[k].ranges)}
    IN  IF hits = {} THEN "Non-RTL"
        ELSE RTL_SCRIPTS[CHOOSE k \in hits : \A j \in hits : k <= j].name

\* count_characters without lines 27-28: a character of no script is not
\* counted
RECURSIVE CountRTLOnly(_, _)
CountRTLOnly(counted, s) ==
    IF s = <<>> THEN counted
    ELSE IF ScriptOf(Head(s)) = "Non-RTL" THEN CountRTLOnly(counted, Tail(s))
    ELSE CountRTLOnly(DictInc(counted, ScriptOf(Head(s))), Tail(s))

RECURSIVE count_characters(_, _)
count_characters(counted, s) ==
    IF s = <<>> THEN counted
    ELSE count_characters(DictInc(counted, ScriptOf(Head(s))), Tail(s))

\* The keys of characters_counted in the order the dict holds them, the
\* order of first insertion, after the characters of s were counted.
RECURSIVE KeysAfter(_, _)
KeysAfter(keys, s) ==
    IF s = <<>> THEN keys
    ELSE KeysAfter(IF \E k \in 1..Len(keys) : keys[k] = ScriptOf(Head(s))
                   THEN keys ELSE Append(keys, ScriptOf(Head(s))),
                   Tail(s))

\* ScriptStats.__init__; counted_keys is the key order of characters_counted
NewStats ==
    [files_processed |-> 0,
     files_modified |-> 0,
     tags_modified |-> <<>>,
     scripts_found |-> <<>>,
     script_by_field |-> <<>>,
     characters_counted |-> <<>>,
     counted_keys |-> <<>>,
     errors |-> <<>>]

\* sum(characters_counted.values())
RECURSIVE DictSum(_)
DictSum(d) ==
    IF DOMAIN d = {} THEN 0
    ELSE LET k == CHOOSE x \in DOMAIN d : TRUE
         IN  d[k] + DictSum([x \in DOMAIN d \ {k} |-> d[x]])

\* characters_counted.items(), in the order the dict holds them
Items(st) ==
    [k \in 1..Len(st.counted_keys) |->
        [script |-> st.counted_keys[k],
         count |-> st.characters_counted[st.counted_keys[k]]]]

\* a sort key that is the count alone
SortsByCount(a, b) == a.count >= b.count

\* key(a) <= key(b) for key = lambda x: (x[0] == "Non-RTL", -x[1]): False
\* sorts before True, then the larger count first
SortKeyLE(a, b) ==
    IF (a.script = "Non-RTL") # (b.script = "Non-RTL")
    THEN a.script # "Non-RTL"
    ELSE a.count >= b.count

\* sorted() is stable: an item goes behind every item whose key is not
\* greater than its own
RECURSIVE InsertSorted(_, _)
InsertSorted(sorted, item) ==
    IF sorted = <<>> THEN <<item>>
    ELSE IF SortKeyLE(Head(sorted), item)
         THEN <<Head(sorted)>> \o InsertSorted(Tail(sorted), item)
         ELSE <<item>> \o sorted

RECURSIVE SortedFrom(_, _, _)
SortedFrom(items, k, sorted) ==
    IF k > Len(items) THEN sorted
    ELSE SortedFrom(items, k + 1, InsertSorted(sorted, items[k]))

\* lines 44-47
sorted_items(st) == SortedFrom(Items(st), 1, <<>>)

max_bar_length == 40

\* lines 49-53, one line per item: percentage is count / total_chars * 100,
\* held as the pair <<count * 100, total_chars>> before it is formatted;
\* bar_length is int(count / total_chars * max_bar_length)
VizLines(items, total_chars) ==
    [k \in 1..Len(items) |->
        [script |-> items[k].script,
         count |-> items[k].count,
         percentage |-> <<items[k].count * 100, total_chars>>,
         bar_length |-> (items[k].count * max_bar_length) \div total_chars]]

\* create_distribution_visualization: the fixed message, or the heading and
\* the lines under it
create_distribution_visualization(st) ==
    IF DOMAIN st.characters_counted = {}
    THEN [heading |-> "No text analysis available.", lines |-> <<>>]
    ELSE [heading |-> "Character Distribution (by script):",
          lines |-> VizLines(sorted_items(st),
                             DictSum(st.characters_counted))]

\* to_report: the sections of the report.  A section that is left out when
\* its collection is empty has listed FALSE; the entries of a dict section
\* are the dict.
to_report(st) ==
    [files_processed |-> st.files_processed,
     files_modified |-> st.files_modified,
     tags_modified |-> [listed |-> st.tags_modified # <<>>,
                        entries |-> st.tags_modified],
     scripts_found |-> [listed |-> st.scripts_found # <<>>,
                        entries |-> st.scripts_found,
                        by_field |-> st.script_by_field],
     distribution |-> create_distribution_visualization(st),
     errors |-> [listed |-> st.errors # <<>>, entries |-> st.errors]]

\* before to_report is called
NoReport ==
    [files_processed |-> 0, files_modified |-> 0,
     tags_modified |-> [listed |-> FALSE, entries |-> <<>>],
     scripts_found |-> [listed |-> FALSE, entries |-> <<>>, by_field |-> <<>>],
     distribution |-> [heading |-> "", lines |-> <<>>],
     errors |-> [listed |-> FALSE, entries |-> <<>>]]

(***************************************************************************)
(* text_processor.py                                                       *)
(***************************************************************************)
Hyphen == <<\h2D>>

RECURSIVE JoinRanges(_, _)
JoinRanges(ranges, r) ==
    IF r > Len(ranges) THEN <<>>
    ELSE ranges[r][1] \o Hyphen \o ranges[r][2] \o JoinRanges(ranges, r + 1)

RECURSIVE JoinScripts(_)
JoinScripts(k) ==
    IF k > Len(RTL_SCRIPTS) THEN <<>>
    ELSE JoinRanges(RTL_SCRIPTS[k].ranges, 1) \o JoinScripts(k + 1)

\* build_rtl_pattern: the text between '[' and ']+' of the pattern
build_rtl_pattern == JoinScripts(1)

\* What re.compile makes of the body of a character class: read left to
\* right, "a-b" is the range a..b and any other character stands for itself.
RECURSIVE ClassItems(_, _)
ClassItems(body, i) ==
    IF i > Len(body) THEN {}
    ELSE IF i + 2 <= Len(body) /\ body[i + 1] = Hyphen[1]
         THEN {<<body[i], body[i + 2]>>} \cup ClassItems(body, i + 3)
         ELSE {<<body[i], body[i]>>} \cup ClassItems(body, i + 1)

RTLClass == ClassItems(build_rtl_pattern, 1)

\* whether the compiled pattern's character class matches char
ClassMatches(char) == \E it \in RTLClass : it[1] <= char /\ char <= it[2]

\* pattern.finditer(text): the maximal runs of class characters, left to
\* right, as <<match.start(), match.end()>> (0-based, end exclusive)
RECURSIVE RunEnd(_, _)
RunEnd(s, i) ==
    IF i < Len(s) /\ ClassMatches(s[i + 1]) THEN RunEnd(s, i + 1) ELSE i

RECURSIVE finditer(_, _)
finditer(s, i) ==
    IF i >= Len(s) THEN <<>>
    ELSE IF ClassMatches(s[i + 1])
         THEN <<  <<i, RunEnd(s, i)>> >> \o finditer(s, RunEnd(s, i))
         ELSE finditer(s, i + 1)

\* the for loop without lines 35-36: the text after the last match is lost
RECURSIVE JoinWithoutTail(_, _, _, _)
JoinWithoutTail(s, matches, m, last_end) ==
    IF m > Len(matches) THEN <<>>
    ELSE (IF matches[m][1] > last_end
          THEN Slice(s, last_end, matches[m][1]) ELSE <<>>)
         \o Reversed(Slice(s, matches[m][1], matches[m][2]))
         \o JoinWithoutTail(s, matches, m + 1, matches[m][2])

\* the for loop of reverse_rtl_parts over the matches, then the tail and join
RECURSIVE JoinSegments(_, _, _, _)
JoinSegments(s, matches, m, last_end) ==
    IF m > Len(matches)
    THEN IF last_end < Len(s) THEN Slice(s, last_end, Len(s)) ELSE <<>>
    ELSE (IF matches[m][1] > last_end
          THEN Slice(s, last_end, matches[m][1]) ELSE <<>>)
         \o Reversed(Slice(s, matches[m][1], matches[m][2]))
         \o JoinSegments(s, matches, m + 1, matches[m][2])

\* the string reverse_rtl_parts returns
reverse_rtl_parts(s) ==
    IF s = <<>> THEN s ELSE JoinSegments(s, finditer(s, 0), 1, 0)

\* the collector after reverse_rtl_parts(s, stats)
CountedBy(st, s) ==
    IF s = <<>> THEN st
    ELSE [st EXCEPT !.characters_counted = count_characters(@, s),
                    !.counted_keys = KeysAfter(@, s)]

(***************************************************************************)
(* tag_mappings.py                                                         *)
(***************************************************************************)
\* TAG_MAPPINGS[format_type] flattened to <<category, tag>> in the order the
\* two nested loops of process_audio_tags visit it.  "(c)" stands for the
\* copyright sign U+00A9 of the Apple atom names.
Tagged(category, tags) == [k \in 1..Len(tags) |-> <<category, tags[k]>>]

TAG_MAPPINGS ==
    [ID3 |->
        Tagged("basic", <<"title", "artist", "album", "albumartist", "composer",
                          "genre", "copyright", "publisher", "lyricist",
                          "conductor", "remixer", "author", "isrc", "language",
                          "discsubtitle", "mood", "version", "script">>)
        \o Tagged("comments", <<"comment", "description">>)
        \o Tagged("lyrics", <<"lyrics", "unsyncedlyrics", "syncedlyrics">>),
     VORBIS |->
        Tagged("basic", <<"TITLE", "ARTIST", "ALBUM", "ALBUMARTIST", "COMPOSER",
                          "GENRE", "COPYRIGHT", "PUBLISHER", "LYRICIST",
                          "CONDUCTOR", "REMIXER", "AUTHOR", "ISRC", "LANGUAGE",
                          "VERSION", "SUBTITLE", "DISCSUBTITLE", "MOOD">>)
        \o Tagged("comments", <<"COMMENT", "DESCRIPTION">>)
        \o Tagged("lyrics", <<"LYRICS", "UNSYNCEDLYRICS", "SYNCEDLYRICS">>),
     APPLE |->
        Tagged("basic", <<"(c)nam", "(c)ART", "(c)alb", "aART", "(c)wrt",
                          "(c)gen", "(c)cpy", "(c)pub", "(c)lyr", "(c)con",
                          "remix", "(c)aut", "xid", "(c)lnd", "subt",
                          "mood", "vers">>)
        \o Tagged("comments", <<"(c)cmt", "desc">>)
        \o Tagged("lyrics", <<"(c)lyr">>)]

(***************************************************************************)
(* Tag values                                                              *)
(***************************************************************************)
\* A tag value is a str, [kind |-> "str", data |-> code points], or a bytes
\* object, [kind |-> "bytes", data |-> bytes].
Str(s) == [kind |-> "str", data |-> s]
Bytes(b) == [kind |-> "bytes", data |-> b]

IsCont(b) == \h80 <= b /\ b <= \hBF

\* value.decode('utf-8'): [ok |-> FALSE] stands for UnicodeDecodeError.
RECURSIVE Utf8Decode(_)
Utf8Decode(b) ==
    IF b = <<>> THEN [ok |-> TRUE, s |-> <<>>]
    ELSE
      LET b1 == b[1]
          n  == IF b1 < \h80 THEN 1
                ELSE IF \hC2 <= b1 /\ b1 <= \hDF THEN 2
                ELSE IF \hE0 <= b1 /\ b1 <= \hEF THEN 3
                ELSE IF \hF0 <= b1 /\ b1 <= \hF4 THEN 4
                ELSE 0
          wellformed ==
              /\ n > 0
              /\ Len(b) >= n
              /\ \A k \in 2..n : IsCont(b[k])
              /\ (b1 = \hE0 => b[2] >= \hA0)
              /\ (b1 = \hED => b[2] <= \h9F)
              /\ (b1 = \hF0 => b[2] >= \h90)
              /\ (b1 = \hF4 => b[2] <= \h8F)
          cp == CASE n = 1 -> b1
                  [] n = 2 -> (b1 - \hC0) * 64 + (b[2] - \h80)
                  [] n = 3 -> (b1 - \hE0) * 4096 + (b[2] - \h80) * 64
                              + (b[3] - \h80)
                  [] OTHER -> (b1 - \hF0) * 262144 + (b[2] - \h80) * 4096
                              + (b[3] - \h80) * 64 + (b[4] - \h80)
      IN  IF ~wellformed THEN [ok |-> FALSE, s |-> <<>>]
          ELSE LET rest == Utf8Decode(SubSeq(b, n + 1, Len(b)))
               IN  IF rest.ok THEN [ok |-> TRUE, s |-> <<cp>> \o rest.s]
                   ELSE rest

(***************************************************************************)
(* id3-rtl-fix.py: process_audio_tags                                      *)
(***************************************************************************)
\* stats.errors.append(...): a message is <<what, file_path>>
WithError(st, what, file_path) ==
    [st EXCEPT !.errors = Append(@, <<what, file_path>>)]

\* line 67: whether audio[tag] = new_values runs
AssignsTag(changes_made, dry_run) == changes_made /\ ~dry_run

\* lines 56-65 for one decoded value: acc carries new_values, changes_made,
\* the collector, whether the reverser changed a value of this tag, and the
\* number of values that failed to decode.
AfterValue(acc, tag, dry_run, str_value, new_value, st1) ==
    [acc EXCEPT
        !.new_values = Append(@, Str(new_value)),
        !.changes_made = @ \/ (new_value # str_value /\ ~dry_run),
        !.reversed = @ \/ (new_value # str_value),
        !.stats = IF new_value # str_value /\ ~dry_run
                  THEN [st1 EXCEPT !.tags_modified = DictInc(@, tag)]
                  ELSE st1]

\* lines 48-65 for one value, dec being the outcome of decoding it: a value
\* that does not decode is passed over (lines 51-52)
ValueStep(acc, tag, dry_run, dec) ==
    IF ~dec.ok THEN [acc EXCEPT !.undecodable = @ + 1]
    ELSE AfterValue(acc, tag, dry_run, dec.s, reverse_rtl_parts(dec.s),
                    CountedBy(acc.stats, dec.s))

\* lines 48-54: str_value, or the failure to decode
Decoded(value) ==
    IF value.kind = "bytes" THEN Utf8Decode(value.data)
    ELSE [ok |-> TRUE, s |-> value.data]

\* the loop over the values of one tag (lines 46-65)
RECURSIVE ValueLoop(_, _, _, _, _)
ValueLoop(values, i, tag, dry_run, acc) ==
    IF i > Len(values) THEN acc
    ELSE ValueLoop(values, i + 1, tag, dry_run,
                   ValueStep(acc, tag, dry_run, Decoded(values[i])))

\* lines 67-68 after the values of tag gave r.  acc carries the tag
\* container, changes_made, the collector, and what was done: the tags the
\* reverser was applied to (seen), those it changed a value of (reversed),
\* those assigned, the number of values that failed to decode.
AfterTag(acc, tag, dry_run, r) ==
    [audio |-> IF AssignsTag(r.changes_made, dry_run)
               THEN [acc.audio EXCEPT ![tag] = r.new_values]
               ELSE acc.audio,
     changes_made |-> r.changes_made,
     stats |-> r.stats,
     undecodable |-> r.undecodable,
     seen |-> acc.seen \cup {tag},
     reversed |-> acc.reversed \cup (IF r.reversed THEN {tag} ELSE {}),
     assigned |-> acc.assigned \cup
                  (IF AssignsTag(r.changes_made, dry_run) THEN {tag} ELSE {})]

\* lines 41-68 for one tag of the mapping
TagStep(acc, tag, dry_run) ==
    IF tag \notin DOMAIN acc.audio THEN acc
    ELSE AfterTag(acc, tag, dry_run,
            ValueLoop(acc.audio[tag], 1, tag, dry_run,
                      [new_values |-> <<>>,
                       changes_made |-> acc.changes_made,
                       reversed |-> FALSE,
                       stats |-> acc.stats,
                       undecodable |-> acc.undecodable]))

\* the two nested loops over the categories and their tags (lines 39-68)
RECURSIVE TagLoop(_, _, _, _)
TagLoop(mapping, k, dry_run, acc) ==
    IF k > Len(mapping) THEN acc
    ELSE TagLoop(mapping, k + 1, dry_run, TagStep(acc, mapping[k][2], dry_run))

\* lines 70-78 after the loops gave r; save_ok is whether audio.save()
\* returns rather than raises.  ret is the value returned, audio the
\* container in memory, saved whether the container reached the file.
AfterTags(file_path, dry_run, save_ok, r) ==
    [ret |-> IF r.changes_made /\ ~dry_run /\ ~save_ok THEN FALSE
             ELSE r.changes_made,
     stats |-> IF r.changes_made /\ ~dry_run /\ ~save_ok
               THEN WithError(r.stats, "Error saving tags for", file_path)
               ELSE r.stats,
     audio |-> r.audio,
     save_called |-> r.changes_made /\ ~dry_run,
     saved |-> r.changes_made /\ ~dry_run /\ save_ok,
     save_failed |-> r.changes_made /\ ~dry_run /\ ~save_ok,
     seen |-> r.seen,
     reversed |-> r.reversed,
     assigned |-> r.assigned,
     undecodable |-> r.undecodable]

\* process_audio_tags(file_path, audio, format_type, reverse_rtl, dry_run,
\* stats)
process_audio_tags(file_path, audio, format_type, dry_run, st, save_ok) ==
    AfterTags(file_path, dry_run, save_ok,
        TagLoop(TAG_MAPPINGS[format_type], 1, dry_run,
                [audio |-> audio, changes_made |-> FALSE, stats |-> st,
                 undecodable |-> 0, seen |-> {}, reversed |-> {},
                 assigned |-> {}]))

(***************************************************************************)
(* id3-rtl-fix.py: process_file                                            *)
(***************************************************************************)
\* str.replace(sub, ''): every non-overlapping occurrence, left to right
RECURSIVE Removed(_, _)
Removed(s, sub) ==
    IF Len(s) < Len(sub) \/ sub = <<>> THEN s
    ELSE IF SubSeq(s, 1, Len(sub)) = sub
         THEN Removed(SubSeq(s, Len(sub) + 1, Len(s)), sub)
         ELSE <<Head(s)>> \o Removed(Tail(s), sub)

\* lines 90-91: the name after --remove (remove_str None or '' is <<>>)
AfterRemove(old_name, o) ==
    IF o.remove_str # <<>> THEN Removed(old_name, o.remove_str) ELSE old_name

\* a rename that does not look at dry_run
RenamesAlways(dry_run) == TRUE

\* lines 98-101: whether a changed name is renamed on disk
DoesRename(dry_run) == ~dry_run

\* lines 119-124: the mapping chosen from str(type(audio.tags))
FormatOf(tagtype) ==
    IF tagtype = "VORBIS" THEN "VORBIS"
    ELSE IF tagtype = "MP4" THEN "APPLE"
    ELSE "ID3"

\* what process_audio_tags reports when it is not called
NoTagWork(st) ==
    [ret |-> FALSE, stats |-> st, audio |-> <<>>, save_called |-> FALSE,
     saved |-> FALSE, save_failed |-> FALSE, seen |-> {}, reversed |-> {},
     assigned |-> {}, undecodable |-> 0]

\* Path.rename(new_path): the file moves, replacing what new_path held
Renamed(dsk, old, new) ==
    [p \in (DOMAIN dsk \ {old}) \cup {new} |->
        IF p = new THEN dsk[old] ELSE dsk[p]]

\* lines 126-130 after process_audio_tags gave t
TagsDone(file_path, st, dsk, changes_made, t) ==
    [ret |-> changes_made \/ t.ret,
     stats |-> t.stats,
     disk |-> IF t.saved THEN [dsk EXCEPT ![file_path].tags = t.audio] ELSE dsk,
     unsupported |-> FALSE, called_tags |-> TRUE,
     tags |-> t]

\* The tag half of process_file (lines 107-130) for the file f now at
\* file_path.  A file is [container, tagtype, tags]: container "easyid3"
\* when EasyID3(file_path) opens it, "unsupported" when EasyID3 raises and
\* File(file_path) returns None, "tags" when EasyID3 raises and File returns
\* an object whose tags are of type tagtype.
TagHalf(file_path, f, o, st, dsk, changes_made, env) ==
    IF ~o.reverse_tags \/ f.container = "easyid3"
    THEN [ret |-> changes_made, stats |-> st, disk |-> dsk,
          unsupported |-> FALSE, called_tags |-> FALSE,
          tags |-> NoTagWork(st)]
    ELSE IF f.container = "unsupported"
    THEN [ret |-> changes_made,
          stats |-> WithError(st, "Unsupported format", file_path),
          disk |-> dsk, unsupported |-> TRUE, called_tags |-> FALSE,
          tags |-> NoTagWork(st)]
    ELSE TagsDone(file_path, st, dsk, changes_made,
            process_audio_tags(file_path, f.tags, FormatOf(f.tagtype),
                               o.dry_run, st, env.save_ok))

\* lines 87-94: new_name (with neither --remove nor --reverse-rtl it is
\* old_name)
NewName(old_name, o) ==
    IF o.reverse_rtl THEN reverse_rtl_parts(AfterRemove(old_name, o))
    ELSE AfterRemove(old_name, o)

\* line 94: the collector after the name went through reverse_rtl_parts
NameCounted(st, old_name, o) ==
    IF o.reverse_rtl THEN CountedBy(st, AfterRemove(old_name, o)) ELSE st

\* the file name half of an effect
NameEffect(file_path, path_after, changed, renamed, rename_failed) ==
    [file |-> file_path, path_after |-> path_after, would_rename |-> changed,
     renamed |-> renamed, rename_failed |-> rename_failed]

\* lines 96-136 once new_name and the collector st1 are computed;
\* env.rename_ok is whether Path.rename returns, env.save_ok whether
\* audio.save() returns
FileSteps(file_path, o, st1, dsk, env, new_name) ==
    IF new_name # file_path /\ DoesRename(o.dry_run) /\ ~env.rename_ok
    THEN \* rename raises: the except clause of lines 132-134
         [ret |-> FALSE,
          stats |-> WithError(st1, "Error processing", file_path),
          disk |-> dsk, unsupported |-> FALSE, called_tags |-> FALSE,
          tags |-> NoTagWork(st1)]
         @@ NameEffect(file_path, file_path, TRUE, FALSE, TRUE)
    ELSE IF new_name # file_path /\ DoesRename(o.dry_run)
    THEN TagHalf(new_name, dsk[file_path], o, st1,
                 Renamed(dsk, file_path, new_name), TRUE, env)
         @@ NameEffect(file_path, new_name, TRUE, TRUE, FALSE)
    ELSE TagHalf(file_path, dsk[file_path], o, st1, dsk,
                 new_name # file_path, env)
         @@ NameEffect(file_path, file_path, new_name # file_path, FALSE, FALSE)

\* process_file(file_path, remove_str, reverse_rtl, reverse_tags, dry_run,
\* stats) on the disk dsk.  A path is a file name: all files share one
\* folder.
process_file(file_path, o, st, dsk, env) ==
    FileSteps(file_path, o, NameCounted(st, file_path, o), dsk, env,
              NewName(file_path, o))

(***************************************************************************)
(* file_utils.py                                                           *)
(***************************************************************************)
\* The backup directory is [exists, subdirs]: subdirs maps each timestamp
\* subdirectory to its entries, an entry per relative path holding the copy
\* (has_file, content) and the .meta sidecar (has_meta, original_path).
NoFile == [container |-> "none", tagtype |-> "none", tags |-> <<>>]

EmptyStore == [exists |-> FALSE, subdirs |-> <<>>]

\* backup_subdir.mkdir(exist_ok=True)
WithSubdir(st, now) ==
    [exists |-> TRUE,
     subdirs |-> [t \in DOMAIN st.subdirs \cup {now} |->
                    IF t \in DOMAIN st.subdirs THEN st.subdirs[t] ELSE <<>>]]

WithEntry(st, now, rel_path, entry) ==
    LET s1 == WithSubdir(st, now)
        dir == s1.subdirs[now]
    IN  [s1 EXCEPT !.subdirs[now] =
            [q \in DOMAIN dir \cup {rel_path} |->
                IF q = rel_path THEN entry ELSE dir[q]]]

\* create_backup(file_path, backup_dir) at time now.  outcome is what the
\* file system lets through: "ok", "copy_failed" (the directories are made,
\* an exception follows before or in shutil.copy2), "meta_failed" (the copy
\* is made, writing the sidecar raises).
create_backup(file_path, st, dsk, now, outcome) ==
    IF outcome = "copy_failed" \/ file_path \notin DOMAIN dsk
    THEN [ok |-> FALSE, store |-> WithSubdir(st, now)]
    ELSE IF outcome = "meta_failed"
    THEN [ok |-> FALSE,
          store |-> WithEntry(st, now, file_path,
                        [has_file |-> TRUE, content |-> dsk[file_path],
                         has_meta |-> FALSE, original_path |-> <<>>])]
    ELSE [ok |-> TRUE,
          store |-> WithEntry(st, now, file_path,
                        [has_file |-> TRUE, content |-> dsk[file_path],
                         has_meta |-> TRUE, original_path |-> file_path])]

Max(S) == CHOOSE x \in S : \A y \in S : y <= x

\* the files the for loop of lines 62-72 copies back, from subdirectory t
Restorable(st, t) ==
    {q \in DOMAIN st.subdirs[t] :
        st.subdirs[t][q].has_meta /\ st.subdirs[t][q].has_file}

\* shutil.copy2(backup_file, original_path) for every restorable entry
CopiedBack(st, t, dsk) ==
    LET R == Restorable(st, t)
        targets == {st.subdirs[t][q].original_path : q \in R}
    IN  [p \in DOMAIN dsk \cup targets |->
            IF p \in targets
            THEN st.subdirs[t][CHOOSE q \in R :
                                 st.subdirs[t][q].original_path = p].content
            ELSE dsk[p]]

\* restore_from_backup(backup_dir, timestamp).  given is whether backup_dir
\* is a path rather than None; timestamp 0 stands for the empty string, a
\* subdirectory's name is its time; io_ok is whether the copies succeed.
\* ret is "True", "False", or "raised" when the call raises to its caller.
restore_from_backup(given, st, timestamp, dsk, io_ok) ==
    IF ~given THEN [ret |-> "raised", disk |-> dsk]
    ELSE IF ~st.exists THEN [ret |-> "False", disk |-> dsk]
    ELSE IF DOMAIN st.subdirs = {} THEN [ret |-> "False", disk |-> dsk]
    ELSE IF timestamp # 0 /\ timestamp \notin DOMAIN st.subdirs
    THEN [ret |-> "False", disk |-> dsk]
    ELSE
      LET backup_path == IF timestamp # 0 THEN timestamp
                         ELSE Max(DOMAIN st.subdirs)
      IN  IF Restorable(st, backup_path) # {} /\ ~io_ok
          THEN [ret |-> "False", disk |-> dsk]
          ELSE [ret |-> "True", disk |-> CopiedBack(st, backup_path, dsk)]

(***************************************************************************)
(* id3-rtl-fix.py: process_folder                                          *)
(***************************************************************************)
\* line 161
Seen(st) == [st EXCEPT !.files_processed = @ + 1]

\* a file that counts twice as modified
ModifiedTwice(st, changes_made) ==
    IF changes_made THEN [st EXCEPT !.files_modified = @ + 2] ELSE st

\* lines 176-177
Modified(st, changes_made) ==
    IF changes_made THEN [st EXCEPT !.files_modified = @ + 1] ELSE st

\* line 165: whether the iteration calls create_backup
ShouldBackup(o) == o.backup_dir /\ ~o.dry_run

\* an iteration that goes on after create_backup returned False
SkipsNever(created) == FALSE

\* lines 166-168: whether the iteration ends before process_file
SkipsFile(created) == ~created

\* a loop that a failed file ends
PcAfterAbort(failed) == IF failed THEN "done" ELSE "loop"

\* Where the loop stands after an iteration: the try/except of lines
\* 160-182 and the continue of line 168 leave it in the loop whether or not
\* the file failed.
PcAfter(failed) == "loop"

\* what an iteration that ends at line 168 leaves in effects
SkippedEffect(file_path) ==
    [file |-> file_path, path_after |-> file_path, backup |-> "failed",
     called |-> FALSE, would_rename |-> FALSE, renamed |-> FALSE,
     rename_failed |-> FALSE, unsupported |-> FALSE, called_tags |-> FALSE,
     seen |-> {}, reversed |-> {}, assigned |-> {}, save_called |-> FALSE,
     saved |-> FALSE, save_failed |-> FALSE, undecodable |-> 0]

\* what an iteration that calls process_file leaves in effects
ProcessedEffect(r, backup) ==
    [file |-> r.file, path_after |-> r.path_after, backup |-> backup,
     called |-> TRUE, would_rename |-> r.would_rename, renamed |-> r.renamed,
     rename_failed |-> r.rename_failed, unsupported |-> r.unsupported,
     called_tags |-> r.called_tags, seen |-> r.tags.seen,
     reversed |-> r.tags.reversed, assigned |-> r.tags.assigned,
     save_called |-> r.tags.save_called, saved |-> r.tags.saved,
     save_failed |-> r.tags.save_failed, undecodable |-> r.tags.undecodable]

(***************************************************************************)
(* The files of the batch specification                                    *)
(***************************************************************************)
Shin == \h05E9
Lamed == \h05DC

\* "<shin><lamed>.mp3", an MP3 file EasyID3 opens
SongA ==
    [path |-> <<Shin, Lamed, \h2E, \h6D, \h70, \h33>>,
     file |-> [container |-> "easyid3", tagtype |-> "other",
               tags |-> [title |-> << Str(<<Shin, Lamed>>) >>]]]

\* "b.ogg", Vorbis comments: an RTL title, and an artist with a value that
\* is no UTF-8 and the value "a b"
SongB ==
    [path |-> <<\h62, \h2E, \h6F, \h67, \h67>>,
     file |-> [container |-> "tags", tagtype |-> "VORBIS",
               tags |-> [TITLE |-> << Str(<<Shin, Lamed>>) >>,
                         ARTIST |-> << Bytes(<<\hFF>>),
                                       Str(<<\h61, \h20, \h62>>) >>]]]

\* "c.m4a", Apple atoms: the name as UTF-8 bytes
SongC ==
    [path |-> <<\h63, \h2E, \h6D, \h34, \h61>>,
     file |-> [container |-> "tags", tagtype |-> "MP4",
               tags |-> ("(c)nam" :> << Bytes(<<\hD7, \hA9, \hD7, \h9C>>) >>)]]

\* "d.wav", which mutagen cannot open
SongD ==
    [path |-> <<\h64, \h2E, \h77, \h61, \h76>>,
     file |-> [container |-> "unsupported", tagtype |-> "none",
               tags |-> <<>>]]

Library == <<SongA, SongB, SongC, SongD>>

\* the file lists of at most MaxFiles files, in the order of Library
RECURSIVE Listed(_, _)
Listed(S, k) ==
    IF k > Len(Library) THEN <<>>
    ELSE (IF k \in S THEN <<Library[k].path>> ELSE <<>>) \o Listed(S, k + 1)

FileLists ==
    {Listed(S, 1) : S \in {T \in SUBSET (1..Len(Library)) : Cardinality(T) <= MaxFiles}}

FileAt(path) == Library[CHOOSE k \in 1..Len(Library) : Library[k].path = path].file

\* the disk before the run
InitialDisk(files) ==
    [p \in {files[k] : k \in 1..Len(files)} |-> FileAt(p)]

\* main, lines 231-233: at least one operation is asked for
Options ==
    {o \in [remove_str : {<<>>, <<Shin>>}, reverse_rtl : BOOLEAN,
            reverse_tags : BOOLEAN, dry_run : BOOLEAN, backup_dir : BOOLEAN] :
        o.remove_str # <<>> \/ o.reverse_rtl \/ o.reverse_tags}

NoOptions ==
    [remove_str |-> <<>>, reverse_rtl |-> FALSE, reverse_tags |-> FALSE,
     dry_run |-> FALSE, backup_dir |-> FALSE]

(***************************************************************************)
(* The batch specification: one run of process_folder, then a restore      *)
(***************************************************************************)
TextIdle ==
    /\ text = <<>>
    /\ result = <<>>
    /\ with_stats = FALSE
    /\ examined = 0
    /\ fed = 0

RestoreIdle ==
    /\ restore_arg = [given |-> FALSE, timestamp |-> 0]
    /\ restore_ret = "none"

Init ==
    /\ opts \in Options
    /\ audio_files \in FileLists
    /\ disk = InitialDisk(audio_files)
    /\ store = EmptyStore
    /\ stats = NewStats
    /\ clock = 1
    /\ idx = 0
    /\ pc = "loop"
    /\ effects = <<>>
    /\ TextIdle
    /\ RestoreIdle
    /\ report = NoReport

BackupOutcomes == {"ok", "copy_failed", "meta_failed"}

\* an iteration that create_backup ends (lines 160-168)
BackupFailed ==
    /\ pc = "loop"
    /\ idx < Len(audio_files)
    /\ ShouldBackup(opts)
    /\ \E now \in {clock, clock + 1}, outcome \in BackupOutcomes :
      \E file_path \in {audio_files[idx + 1]} :
      \E b \in {create_backup(file_path, store, disk, now, outcome)} :
            /\ SkipsFile(b.ok)
            /\ store' = b.store
            /\ clock' = now
            /\ stats' = WithError(Seen(stats), "Backup failed for", file_path)
            /\ effects' = Append(effects, SkippedEffect(file_path))
            /\ pc' = PcAfter(TRUE)
    /\ idx' = idx + 1
    /\ UNCHANGED <<disk, opts, audio_files>>
    /\ UNCHANGED textvars
    /\ UNCHANGED restorevars
    /\ UNCHANGED report

\* an iteration that reaches process_file (lines 160-177): no backup is
\* asked for, or create_backup did not end the iteration
ProcessOne ==
    /\ pc = "loop"
    /\ idx < Len(audio_files)
    /\ \E now \in {clock, clock + 1}, outcome \in BackupOutcomes,
          rename_ok \in BOOLEAN, save_ok \in BOOLEAN :
      \E file_path \in {audio_files[idx + 1]}, backing \in {ShouldBackup(opts)} :
      \E b \in {create_backup(file_path, store, disk, now, outcome)},
         r \in {process_file(file_path, opts, Seen(stats), disk,
                             [rename_ok |-> rename_ok, save_ok |-> save_ok])} :
            /\ backing \/ (now = clock /\ outcome = "ok")
            /\ backing => ~SkipsFile(b.ok)
            /\ store' = IF backing THEN b.store ELSE store
            /\ clock' = now
            /\ disk' = r.disk
            /\ stats' = Modified(r.stats, r.ret)
            /\ effects' = Append(effects,
                              ProcessedEffect(r, IF ~backing THEN "none"
                                                 ELSE IF b.ok THEN "ok"
                                                 ELSE "failed"))
            /\ pc' = PcAfter(r.rename_failed \/ r.tags.save_failed \/ r.unsupported)
    /\ idx' = idx + 1
    /\ UNCHANGED <<opts, audio_files>>
    /\ UNCHANGED textvars
    /\ UNCHANGED restorevars
    /\ UNCHANGED report

\* return stats (lines 152-154 and 184), and main prints the report
\* (line 240)
Return ==
    /\ pc = "loop"
    /\ idx = Len(audio_files)
    /\ pc' = "done"
    /\ report' = to_report(stats)
    /\ UNCHANGED <<stats, disk, store, idx>>
    /\ UNCHANGED batchvars
    /\ UNCHANGED textvars
    /\ UNCHANGED restorevars

\* a later run with --restore-backup (main, lines 228-229)
RestoreAfterBatch ==
    /\ pc = "done"
    /\ \E timestamp \in {0} \cup DOMAIN store.subdirs, io_ok \in BOOLEAN :
      \E r \in {restore_from_backup(opts.backup_dir, store, timestamp, disk, io_ok)} :
            /\ restore_arg' = [given |-> opts.backup_dir, timestamp |-> timestamp]
            /\ restore_ret' = r.ret
            /\ disk' = r.disk
    /\ pc' = "restored"
    /\ UNCHANGED <<stats, store, idx>>
    /\ UNCHANGED <<opts, audio_files, clock, effects>>
    /\ UNCHANGED textvars
    /\ UNCHANGED report

Next == BackupFailed \/ ProcessOne \/ Return \/ RestoreAfterBatch

Spec == Init /\ [][Next]_vars

(***************************************************************************)
(* The text specification: calls of reverse_rtl_parts on one collector     *)
(***************************************************************************)
\* space, 'H', 'e', Hebrew shin, U+1085, U+10840
Alphabet == {\h20, \h48, \h65, \h05E9, \h1085, \h10840}

Strings == UNION {[1..n -> Alphabet] : n \in 0..MaxLen}

BatchIdle ==
    /\ opts = NoOptions
    /\ audio_files = <<>>
    /\ disk = <<>>
    /\ store = EmptyStore
    /\ clock = 1
    /\ idx = 0
    /\ effects = <<>>

TextInit ==
    /\ TextIdle
    /\ stats = NewStats
    /\ pc = "text"
    /\ BatchIdle
    /\ RestoreIdle
    /\ report = NoReport

\* one call reverse_rtl_parts(s, stats) on the shared collector
CallWithStats ==
    /\ pc = "text"
    /\ \E s \in Strings :
        /\ fed + Len(s) <= MaxTotal
        /\ text' = s
        /\ with_stats' = TRUE
        /\ result' = reverse_rtl_parts(s)
        /\ stats' = CountedBy(stats, s)
        /\ examined' = examined + Len(s)
        /\ fed' = fed + Len(s)
    /\ UNCHANGED <<disk, store, pc>>
    /\ UNCHANGED batchvars
    /\ UNCHANGED restorevars
    /\ UNCHANGED report

\* one call reverse_rtl_parts(s) with stats=None
CallWithoutStats ==
    /\ pc = "text"
    /\ \E s \in Strings :
        /\ fed + Len(s) <= MaxTotal
        /\ text' = s
        /\ with_stats' = FALSE
        /\ result' = reverse_rtl_parts(s)
        /\ fed' = fed + Len(s)
    /\ UNCHANGED <<stats, examined, disk, store, pc>>
    /\ UNCHANGED batchvars
    /\ UNCHANGED restorevars
    /\ UNCHANGED report

\* stats.to_report() on the shared collector, after the calls
Report ==
    /\ pc = "text"
    /\ report' = to_report(stats)
    /\ pc' = "reported"
    /\ UNCHANGED <<stats, disk, store>>
    /\ UNCHANGED batchvars
    /\ UNCHANGED textvars
    /\ UNCHANGED restorevars

TextNext == CallWithStats \/ CallWithoutStats \/ Report

SpecText == TextInit /\ [][TextNext]_vars

(***************************************************************************)
(* The restore specification: restore_from_backup on any backup directory  *)
(***************************************************************************)
Stamps == 1..MaxStamps

BackedUp == {SongA, SongD}

\* an entry of a subdirectory: the copy, the sidecar, or both
EntriesFor(song) ==
    {[has_file |-> hf, content |-> IF hf THEN song.file ELSE NoFile,
      has_meta |-> hm, original_path |-> IF hm THEN song.path ELSE <<>>] :
        hf \in BOOLEAN, hm \in BOOLEAN} \
    {[has_file |-> FALSE, content |-> NoFile, has_meta |-> FALSE,
      original_path |-> <<>>]}

\* a subdirectory: for some of the songs, an entry
Subdirs ==
    UNION {{d \in [{song.path : song \in S} ->
                      UNION {EntriesFor(song) : song \in S}] :
               \A song \in S : d[song.path] \in EntriesFor(song)} :
           S \in SUBSET BackedUp}

Stores ==
    {EmptyStore} \cup
    UNION {{[exists |-> TRUE, subdirs |-> sd] : sd \in [T -> Subdirs]} :
           T \in SUBSET Stamps}

RestoreInit ==
    /\ store \in Stores
    /\ disk = <<>>
    /\ stats = NewStats
    /\ pc = "restore"
    /\ opts = NoOptions
    /\ audio_files = <<>>
    /\ clock = 1
    /\ idx = 0
    /\ effects = <<>>
    /\ TextIdle
    /\ RestoreIdle
    /\ report = NoReport

\* restore_from_backup(args.backup_dir, args.restore_backup)
RestoreCall ==
    /\ pc = "restore"
    /\ \E given \in BOOLEAN, timestamp \in 0..(MaxStamps + 1), io_ok \in BOOLEAN :
      \E r \in {restore_from_backup(given, store, timestamp, disk, io_ok)} :
            /\ restore_arg' = [given |-> given, timestamp |-> timestamp]
            /\ restore_ret' = r.ret
            /\ disk' = r.disk
    /\ pc' = "restored"
    /\ UNCHANGED <<stats, store, idx>>
    /\ UNCHANGED <<opts, audio_files, clock, effects>>
    /\ UNCHANGED textvars
    /\ UNCHANGED report

RestoreNext == RestoreCall

SpecRestore == RestoreInit /\ [][RestoreNext]_vars

(***************************************************************************)
(* Properties                                                              *)
(***************************************************************************)
Range(q) == {q[k] : k \in 1..Len(q)}

\* whether some range of the table holds char, as count_characters tests it
InTable(char) == ScriptOf(char) # "Non-RTL"

RECURSIVE TableRunEnd(_, _)
TableRunEnd(s, i) ==
    IF i < Len(s) /\ InTable(s[i + 1]) THEN TableRunEnd(s, i + 1) ELSE i

\* s with every maximal run of table characters reversed where it stands
\* and every other character left at its index
RECURSIVE TableRunsReversed(_, _)
TableRunsReversed(s, i) ==
    IF i >= Len(s) THEN <<>>
    ELSE IF InTable(s[i + 1])
         THEN Reversed(Slice(s, i, TableRunEnd(s, i)))
              \o TableRunsReversed(s, TableRunEnd(s, i))
         ELSE <<s[i + 1]>> \o TableRunsReversed(s, i + 1)

\* C1: reverse_rtl_parts(s) leaves every character outside the RTL ranges
\* of the table at its index and reverses each maximal run of characters
\* inside them; a text of Latin letters and spaces comes back unchanged.
C1_OnlyTableRunsReversed == result = TableRunsReversed(text, 0)

\* C2: reverse_rtl_parts is an involution: applied to what it returned for
\* text, it returns text.
C2_Involution == reverse_rtl_parts(result) = text

\* a call that reversed a run and left a character outside the class alone
C2_Witness ==
    /\ result # text
    /\ \E i \in 1..Len(text) : ~ClassMatches(text[i])

\* the blocks the table lists, as code points
ListedBlocks ==
    << <<"Hebrew", \h0590, \h05FF>>, <<"Hebrew", \hFB1D, \hFB4F>>,
       <<"Arabic", \h0600, \h06FF>>, <<"Arabic", \h0750, \h077F>>,
       <<"Arabic", \h08A0, \h08FF>>, <<"Arabic", \hFB50, \hFDFF>>,
       <<"Arabic", \hFE70, \hFEFF>>,
       <<"Syriac", \h0700, \h074F>>, <<"Syriac", \h0860, \h086F>>,
       <<"Thaana", \h0780, \h07BF>>, <<"NKo", \h07C0, \h07FF>>,
       <<"Mandaic", \h0840, \h085F>>, <<"Samaritan", \h0800, \h083F>>,
       <<"Imperial Aramaic", \h10840, \h1085F>>,
       <<"Phoenician", \h10900, \h1091F>>,
       <<"Nabataean", \h10880, \h108AF>>,
       <<"Lydian", \h10920, \h1093F>>,
       <<"Meroitic", \h10980, \h1099F>>, <<"Meroitic", \h109A0, \h109FF>> >>

\* the script of the first listed block that holds the code point
BlockOf(char) ==
    LET hits == {k \in 1..Len(ListedBlocks) :
                    ListedBlocks[k][2] <= char /\ char <= ListedBlocks[k][3]}
    IN  IF hits = {} THEN "Non-RTL"
        ELSE ListedBlocks[CHOOSE k \in hits : \A j \in hits : k <= j][1]

RECURSIVE CountedByBlock(_, _)
CountedByBlock(counted, s) ==
    IF s = <<>> THEN counted
    ELSE CountedByBlock(DictInc(counted, BlockOf(Head(s))), Tail(s))

\* C3: count_characters credits each character to the script whose listed
\* block holds its code point (Imperial Aramaic U+10840-U+1085F, ...) and to
\* "Non-RTL" when no listed block holds it.
C3_CountedByListedBlock ==
    (with_stats /\ examined = Len(text)) =>
        stats.characters_counted = CountedByBlock(<<>>, text)

\* C4: the buckets of characters_counted add up to the total length of the
\* texts the calls sharing the collector were given, and the empty text
\* comes back empty.
C4_CountedEqualsExamined ==
    /\ DictSum(stats.characters_counted) = examined
    /\ (text = <<>> => result = <<>>)

\* a second call on the collector, with characters in two buckets
C4_Witness ==
    /\ with_stats
    /\ text # <<>>
    /\ examined > Len(text)
    /\ Cardinality(DOMAIN stats.characters_counted) >= 2

\* whether the backup directory holds the copy and the sidecar of path
BackedUpIn(st, path) ==
    \E t \in DOMAIN st.subdirs :
        /\ path \in DOMAIN st.subdirs[t]
        /\ st.subdirs[t][path].has_file
        /\ st.subdirs[t][path].has_meta

\* C5: with a backup directory and no dry run, a file is renamed or has its
\* tags written only after create_backup succeeded for it in the same
\* iteration; a failed backup appends an error and process_file is not
\* called.
C5_NoChangeWithoutBackup ==
    (opts.backup_dir /\ ~opts.dry_run) =>
        \A k \in 1..Len(effects) :
            /\ (effects[k].called \/ effects[k].renamed
                \/ effects[k].assigned # {} \/ effects[k].save_called)
               => (effects[k].backup = "ok" /\ BackedUpIn(store, effects[k].file))
            /\ effects[k].backup # "ok"
               => /\ ~effects[k].called
                  /\ <<"Backup failed for", effects[k].file>> \in Range(stats.errors)

\* one file was skipped for want of a backup, another renamed after its own
C5_Witness ==
    /\ \E k \in 1..Len(effects) : effects[k].backup = "failed"
    /\ \E k \in 1..Len(effects) : effects[k].backup = "ok" /\ effects[k].renamed

\* the configured tags of the file's format that the file holds
ConfiguredTags(f) ==
    LET mapping == TAG_MAPPINGS[IF f.container = "easyid3" THEN "ID3"
                                ELSE FormatOf(f.tagtype)]
    IN  {mapping[k][2] : k \in 1..Len(mapping)} \cap DOMAIN f.tags

\* C6: with --reverse-tags, process_file applies the reverser to every
\* configured tag present in a file whose tag container opens (ID3, Vorbis
\* or Apple) and, outside dry-run, writes back and saves what it changed.
C6_EveryOpenableFileReversed ==
    opts.reverse_tags =>
        \A k \in 1..Len(effects) :
            (effects[k].called /\ ~effects[k].rename_failed
             /\ FileAt(effects[k].file).container # "unsupported")
            => /\ effects[k].seen = ConfiguredTags(FileAt(effects[k].file))
               /\ ~opts.dry_run =>
                    /\ effects[k].reversed \subseteq effects[k].assigned
                    /\ (effects[k].reversed # {} => effects[k].save_called)

\* C7: in dry-run mode nothing is written: no rename, no tag assigned, no
\* save, no backup; the disk and the backup directory stay as they were.
C7_DryRunWritesNothing ==
    opts.dry_run =>
        /\ disk = InitialDisk(audio_files)
        /\ store = EmptyStore
        /\ \A k \in 1..Len(effects) :
            /\ ~effects[k].renamed
            /\ effects[k].assigned = {}
            /\ ~effects[k].save_called
            /\ effects[k].backup = "none"

\* a dry run that computed a rename and a tag update
C7_Witness ==
    /\ opts.dry_run
    /\ \E k \in 1..Len(effects) :
        effects[k].would_rename /\ effects[k].reversed # {}

\* whether the error list names one of the paths of the effect
ErrorNames(e) ==
    \E m \in Range(stats.errors) : m[2] \in {e.file, e.path_after}

\* C8: every file-level error (unsupported format, a tag value that fails
\* to decode, a failed save, a failed rename) appends a message naming the
\* file to stats.errors, and the loop goes on to the next file.
C8_EveryFileErrorRecorded ==
    /\ \A k \in 1..Len(effects) :
        (effects[k].unsupported \/ effects[k].undecodable > 0
         \/ effects[k].save_failed \/ effects[k].rename_failed)
        => ErrorNames(effects[k])
    /\ (pc # "loop" => Len(effects) = Len(audio_files))

\* whether the iteration of an effect met a failure
Failed(e) ==
    e.backup = "failed" \/ e.rename_failed \/ e.save_failed \/ e.unsupported

\* C9: no failure on one file ends the batch: every iteration, failed or
\* not, leaves the loop at the next file, and when process_folder returns
\* every discovered file was handled and files_processed is their number.
C9_BatchCompletes ==
    /\ pc = "loop" =>
        /\ idx <= Len(audio_files)
        /\ Len(effects) = idx
        /\ stats.files_processed = idx
    /\ pc \in {"done", "restored"} =>
        /\ stats.files_processed = Len(audio_files)
        /\ Len(effects) = Len(audio_files)

\* process_folder returned after a file that failed was followed by another
C9_Witness ==
    /\ pc = "done"
    /\ \E k \in 1..Len(effects) : Failed(effects[k]) /\ k < Len(effects)

\* the subdirectory restore_from_backup selects, when there is one
Selected ==
    IF restore_arg.timestamp # 0 THEN restore_arg.timestamp
    ELSE Max(DOMAIN store.subdirs)

\* the errors of a restore: no backup directory, no subdirectory in it, the
\* timestamp asked for is absent, or an entry of the selected subdirectory
\* lacks its sidecar or its copy
RestoreError ==
    \/ ~store.exists
    \/ DOMAIN store.subdirs = {}
    \/ (restore_arg.timestamp # 0 /\ restore_arg.timestamp \notin DOMAIN store.subdirs)
    \/ \E q \in DOMAIN store.subdirs[Selected] :
        ~store.subdirs[Selected][q].has_meta \/ ~store.subdirs[Selected][q].has_file

\* C10: restore_from_backup returns False, and does not raise, whenever a
\* restore error occurs.
C10_RestoreErrorReturnsFalse ==
    (pc = "restored" /\ restore_arg.given /\ RestoreError) => restore_ret = "False"

\* 0 <= files_modified <= files_processed for the collector st
CountersOrdered(st) ==
    /\ 0 <= st.files_modified
    /\ st.files_modified <= st.files_processed

\* C11: during a batch run 0 <= files_modified <= files_processed before and
\* after every step; a step adds at most one to files_processed and at most
\* one to files_modified, and files_modified grows only in a step that also
\* counted the file as processed.
C11_ModifiedWithinProcessed ==
    [][/\ CountersOrdered(stats)
       /\ CountersOrdered(stats')
       /\ stats'.files_processed \in {stats.files_processed,
                                      stats.files_processed + 1}
       /\ stats'.files_modified \in {stats.files_modified,
                                     stats.files_modified + 1}
       /\ (stats'.files_modified # stats.files_modified
           => stats'.files_processed = stats.files_processed + 1)]_vars

\* process_folder returned with a modified file and an unmodified one
C11_Witness ==
    /\ pc = "done"
    /\ stats.files_modified >= 1
    /\ stats.files_modified < stats.files_processed

\* C12: create_distribution_visualization lists each counted bucket once
\* with its count, in descending order of count except that "Non-RTL" comes
\* last whatever its count; every listed count is non-zero; when no
\* character was counted it returns "No text analysis available." and no
\* line.
C12_DistributionOrder ==
    pc = "reported" =>
        LET viz == report.distribution
            n == Len(viz.lines)
        IN  /\ examined = 0 =>
                (viz.heading = "No text analysis available." /\ n = 0)
            /\ examined > 0 => viz.heading # "No text analysis available."
            /\ {viz.lines[k].script : k \in 1..n} = DOMAIN stats.characters_counted
            /\ \A k \in 1..n :
                /\ viz.lines[k].count > 0
                /\ viz.lines[k].count = stats.characters_counted[viz.lines[k].script]
            /\ \A i \in 1..n : \A j \in (i + 1)..n :
                /\ viz.lines[i].script # viz.lines[j].script
                /\ viz.lines[i].script # "Non-RTL"
                /\ (viz.lines[j].script # "Non-RTL"
                    => viz.lines[i].count >= viz.lines[j].count)

\* a report of three buckets in which "Non-RTL", last, has the largest count
C12_Witness ==
    /\ pc = "reported"
    /\ Len(report.distribution.lines) = 3
    /\ report.distribution.lines[3].script = "Non-RTL"
    /\ report.distribution.lines[3].count > report.distribution.lines[1].count

\* whether the reverser matched a run of a listed script while effect e was
\* produced: in a tag value it changed, or in the file name
MatchedRun(e) ==
    \/ e.reversed # {}
    \/ /\ e.called
       /\ opts.reverse_rtl
       /\ \E m \in Range(finditer(AfterRemove(e.file, opts), 0)) :
            \E i \in (m[1] + 1)..m[2] : InTable(AfterRemove(e.file, opts)[i])

\* C13: after a batch in which the reverser matched at least one RTL run,
\* scripts_found holds a positive count for some script, script_by_field
\* holds the field, and the report lists the "RTL Scripts Found" section.
C13_MatchedRunsFound ==
    (pc = "done" /\ \E k \in 1..Len(effects) : MatchedRun(effects[k])) =>
        /\ \E script \in DOMAIN stats.scripts_found :
                stats.scripts_found[script] > 0
        /\ DOMAIN stats.script_by_field # {}
        /\ report.scripts_found.listed

\* the indices of s that lie inside a run finditer matched
InRuns(s) ==
    {i \in 1..Len(s) :
        \E m \in Range(finditer(s, 0)) : m[1] < i /\ i <= m[2]}

\* the characters counted under a script name
CountedRTL(counted) ==
    DictSum([k \in DOMAIN counted \ {"Non-RTL"} |-> counted[k]])

\* C14: a character of the text is matched into a run by the character
\* class of build_rtl_pattern if and only if count_characters counts it
\* under a script name; the characters inside runs are no more than the
\* characters counted under RTL scripts.
C14_ClassAgreesWithClassifier ==
    /\ \A i \in 1..Len(text) :
        (i \in InRuns(text)) <=> (ScriptOf(text[i]) # "Non-RTL")
    /\ (with_stats /\ examined = Len(text)) =>
        Cardinality(InRuns(text)) <= CountedRTL(stats.characters_counted)

\* C15: after a batch run with a backup directory and no dry run, a
\* restore_from_backup with no timestamp that returns True leaves, at the
\* original path of every file the batch backed up, the content the file
\* had before the batch.
C15_BackupRestoreRoundTrip ==
    (/\ pc = "restored"
     /\ opts.backup_dir
     /\ ~opts.dry_run
     /\ restore_arg.timestamp = 0
     /\ restore_ret = "True") =>
        \A k \in 1..Len(effects) :
            effects[k].backup = "ok" =>
                /\ effects[k].file \in DOMAIN disk
                /\ disk[effects[k].file] = FileAt(effects[k].file)

\* C16: a tag none of whose values the reverser changed keeps its original
\* list of values, undecodable values included, in the container that
\* process_audio_tags saved, whichever tags were changed before it.
C16_UnchangedTagKept ==
    pc \in {"loop", "done"} =>
        \A k \in 1..Len(effects) :
            effects[k].saved =>
                \A tag \in DOMAIN FileAt(effects[k].file).tags \ effects[k].reversed :
                    /\ tag \notin effects[k].assigned
                    /\ disk[effects[k].path_after].tags[tag]
                       = FileAt(effects[k].file).tags[tag]

====
